---- MODULE Spec2Model ----
(***************************************************************************)
(* async_cog.cog.COGReader: the header decode, the IFD chain walk and the  *)
(* tag decode of a TIFF / BigTIFF file read over byte-range requests.      *)
(*                                                                         *)
(* A Python int is unbounded while TLC's integers are 32 bits wide, so an  *)
(* int that unpack() returns is carried as its base-256 numeral, least     *)
(* significant digit first; Val gives its value where the code computes    *)
(* with it.  An Optional value is a sequence of length 0 (None) or 1.      *)
(***************************************************************************)
EXTENDS Integers, Sequences, FiniteSets, TLC

\* Bounds of the model: the files served and the length of a walk.
MaxDirs == 2
MaxTags == 2
MaxCount == 9
MaxHops == 3

None == <<>>
Some(x) == <<x>>

Reverse(s) == [i \in 1..Len(s) |-> s[Len(s) + 1 - i]]

Min(a, b) == IF a < b THEN a ELSE b

RECURSIVE Val(_)
Val(num) == IF num = <<>> THEN 0 ELSE Head(num) + 256 * Val(Tail(num))

RECURSIVE Digits(_, _)
Digits(v, w) == IF w = 0 THEN <<>> ELSE <<v % 256>> \o Digits(v \div 256, w - 1)

RECURSIVE Flatten(_)
Flatten(ss) == IF ss = <<>> THEN <<>> ELSE Head(ss) \o Flatten(Tail(ss))

(***************************************************************************)
(* struct: calcsize, unpack and pack of one unsigned field.  With a "<" or *)
(* ">" prefix the field is read in that order; pack() is called without a  *)
(* prefix (line 241) and writes in the byte order of the host.             *)
(***************************************************************************)
calcsize(fmt) == CASE fmt = "H" -> 2 [] fmt = "I" -> 4 [] fmt = "Q" -> 8

unpack(byte_order, data) == IF byte_order = "<" THEN data ELSE Reverse(data)

pack(native_order, num) == IF native_order = "<" THEN num ELSE Reverse(num)

(***************************************************************************)
(* async_cog.ifd (not among the files of src/): the table of tag types and *)
(* Tag.data_size, after the specification's per_type_byte_size(type) *     *)
(* count; the sizes are those of TIFF 6.0 and BigTIFF.                     *)
(***************************************************************************)
TAG_TYPES == (1 :> 1) @@ (2 :> 1) @@ (3 :> 2) @@ (4 :> 4) @@ (5 :> 8) @@ (6 :> 1)
             @@ (7 :> 1) @@ (8 :> 2) @@ (9 :> 4) @@ (10 :> 8) @@ (11 :> 4)
             @@ (12 :> 8) @@ (16 :> 8) @@ (17 :> 8) @@ (18 :> 8)

data_size(type, n_values) == TAG_TYPES[type] * n_values

(***************************************************************************)
(* The file on the server.  An image describes what its writer put there:  *)
(* the order marker, the header fields as numbers, and the directories,    *)
(* each with its tag records and the index of the directory its next       *)
(* pointer names (0: none).  Encode lays the image out byte by byte.       *)
(***************************************************************************)
II == <<73, 73>>
MM == <<77, 77>>
XX == <<88, 88>>

WriterOrder(img) == IF img.marker = MM THEN ">" ELSE "<"
Extended(img) == img.version = 43
PointerWidth(img) == IF Extended(img) THEN 8 ELSE 4
CountWidth(img) == IF Extended(img) THEN 8 ELSE 2
HeaderLen(img) == IF Extended(img) THEN 16 ELSE 8
TagRecordSize(img) == 2 + 2 + 2 * PointerWidth(img)
DirLen(img, i) ==
    CountWidth(img) + Len(img.dirs[i].tags) * TagRecordSize(img) + PointerWidth(img)

RECURSIVE DirOffset(_, _)
DirOffset(img, i) ==
    IF i = 0 THEN 0
    ELSE IF i = 1 THEN HeaderLen(img)
    ELSE DirOffset(img, i - 1) + DirLen(img, i - 1)

Enc(img, v, w) == pack(WriterOrder(img), Digits(v, w))

EncTag(img, t) ==
    Enc(img, t.code, 2) \o Enc(img, t.type, 2)
        \o Enc(img, t.count, PointerWidth(img)) \o t.slot

EncDir(img, i) ==
    Enc(img, Len(img.dirs[i].tags), CountWidth(img))
        \o Flatten([k \in 1..Len(img.dirs[i].tags) |-> EncTag(img, img.dirs[i].tags[k])])
        \o Enc(img, DirOffset(img, img.dirs[i].next), PointerWidth(img))

Encode(img) ==
    img.marker \o Enc(img, img.version, 2)
        \o (IF Extended(img)
            THEN Enc(img, img.bytesize, 2) \o Enc(img, img.reserved, 2)
                     \o Enc(img, DirOffset(img, img.first), 8)
            ELSE Enc(img, DirOffset(img, img.first), 4))
        \o Flatten([i \in 1..Len(img.dirs) |-> EncDir(img, i)])

(***************************************************************************)
(* The images served.  Tag k of a directory has code 255 + k.  A slot      *)
(* holds either the bytes 1, 2, ..., pointer_width or the SHORT 512 in the *)
(* writer's byte order, left-justified as TIFF stores an inline value.     *)
(***************************************************************************)
Markers == {II, MM, XX}
Versions == {42, 43, 44, 10752}
KnownTypes == DOMAIN TAG_TYPES
TypeIds == KnownTypes \cup {0, 13}

Slot(marker, version, kind) ==
    LET pw == IF version = 43 THEN 8 ELSE 4
    IN  IF kind = "ramp" THEN [i \in 1..pw |-> i]
        ELSE pack(IF marker = MM THEN ">" ELSE "<", Digits(512, 2)) \o [i \in 1..(pw - 2) |-> 0]

TagRec(marker, version, k, type, count, kind) ==
    [code |-> 255 + k, type |-> type, count |-> count,
     slot |-> Slot(marker, version, kind)]

\* A SHORT stored inline, three LONGs behind a pointer, a type no table knows.
SmallMenu == {<<3, 1, "short512">>, <<4, 3, "ramp">>, <<13, 1, "ramp">>}

MenuTags(marker, version, choice) ==
    [k \in 1..Len(choice) |->
        TagRec(marker, version, k, choice[k][1], choice[k][2], choice[k][3])]

Image(marker, version, bytesize, reserved, first, dirs) ==
    [marker |-> marker, version |-> version, bytesize |-> bytesize,
     reserved |-> reserved, first |-> first, dirs |-> dirs]

\* Only an extended header holds the pointer-size and reserved fields.
HeaderImages ==
    { img \in { Image(m, v, b, r, 1,
                      << [tags |-> MenuTags(m, v, << <<3, 1, "short512">> >>),
                          next |-> 0] >>) :
                  m \in Markers, v \in Versions, b \in {8, 4}, r \in {0, 1} } :
        img.version = 43 \/ (img.bytesize = 8 /\ img.reserved = 0) }

\* Directory i of a chain image holds Min(i, MaxTags) tags of the menu.
ChainDirTags(m, v, i) ==
    MenuTags(m, v, [k \in 1..Min(i, MaxTags) |->
                       IF (i + k) % 2 = 0 THEN <<3, 1, "short512">> ELSE <<4, 3, "ramp">>])

ChainImages ==
    UNION { { Image(m, v, 8, 0, first,
                    [i \in 1..d |-> [tags |-> ChainDirTags(m, v, i), next |-> nxt[i]]]) :
                m \in {II, MM}, v \in {42, 43}, first \in 0..d, nxt \in [1..d -> 0..d] } :
            d \in 0..MaxDirs }

TagImages ==
    { Image(m, v, 8, 0, 1,
            << [tags |-> MenuTags(m, v, << <<type, count, "ramp">> >>), next |-> 0] >>) :
        m \in {II, MM}, v \in {42, 43}, type \in TypeIds, count \in 0..MaxCount }

MultiTagImages ==
    UNION { { Image(m, v, 8, 0, 1,
                    << [tags |-> MenuTags(m, v, choice), next |-> 2],
                       [tags |-> MenuTags(m, v, << <<3, 1, "short512">> >>), next |-> 0] >>) :
                m \in {II, MM}, v \in {42, 43}, choice \in [1..n -> SmallMenu] } :
            n \in 0..MaxTags }

Images == HeaderImages \cup ChainImages \cup TagImages \cup MultiTagImages

VARIABLES
    image,              \* what the writer put on the server
    content,            \* the bytes the server holds: Encode(image)
    native,             \* the byte order of the host ("<" or ">")
    pc,                 \* where the reader's coroutine is
    exc,                \* the exception __aenter__ raised, if any
    client,             \* self._client: "unset", "open" or "closed"
    byte_order_fmt,     \* self._byte_order_fmt
    version,            \* self._version
    pointer_fmt,        \* self._pointer_fmt
    n_fmt,              \* self._n_fmt
    first_ifd_pointer,  \* self._first_ifd_pointer
    ifds,               \* self._ifds
    ifd_pointer,        \* _read_ifd's argument
    n_tags,             \* _read_ifd's local n_tags
    fetches,            \* the log of range requests sent: <<offset, size>>
    responses           \* the log of the responses received

vars == <<image, content, native, pc, exc, client, byte_order_fmt, version,
          pointer_fmt, n_fmt, first_ifd_pointer, ifds, ifd_pointer, n_tags,
          fetches, responses>>

Init ==
    /\ image \in Images
    /\ content = Encode(image)
    /\ native \in {"<", ">"}
    /\ pc = "new"
    /\ exc = "none"
    /\ client = "unset"
    /\ byte_order_fmt = "unset"
    /\ version = 0
    /\ pointer_fmt = "unset"
    /\ n_fmt = "unset"
    /\ first_ifd_pointer = 0
    /\ ifds = <<>>
    /\ ifd_pointer = 0
    /\ n_tags = 0
    /\ fetches = <<>>
    /\ responses = <<>>

(***************************************************************************)
(* The server's answers to "Range: bytes=offset-(offset+size-1)": the      *)
(* bytes of the range that the file holds ("served"), a body that the      *)
(* transport cut short ("cut"), or a status that is not OK ("notok").      *)
(***************************************************************************)
Available(offset, size) ==
    SubSeq(content, offset + 1, Min(offset + size, Len(content)))

Responses(offset, size) ==
    LET avail == Available(offset, size)
    IN  {[kind |-> "notok", ok |-> FALSE, data |-> <<>>],
         [kind |-> "cut", ok |-> TRUE,
          data |-> SubSeq(avail, 1, Min(Len(avail), size - 1))]}
        \cup (IF avail # <<>>
              THEN {[kind |-> "served", ok |-> TRUE, data |-> avail]}
              ELSE {})

\* _read: the assert of line 59, then the body; unpack() of a buffer of
\* another length than its format raises struct.error.
ReadError(r, size) ==
    IF ~r.ok THEN "AssertionError"
    ELSE IF Len(r.data) # size THEN "struct.error"
    ELSE "none"

\* __aenter__'s except clause: an AssertionError leaves as ValueError("Invalid
\* file format"), any other exception as it is.
AEnterExcept(e) == IF e = "AssertionError" THEN "ValueError" ELSE e

Raise(e) ==
    /\ pc' = "raised"
    /\ exc' = AEnterExcept(e)

tag_format_size(pfmt) == calcsize("H") + calcsize("H") + 2 * calcsize(pfmt)

\* _read_first_header, lines 108-113.
ByteOrderOf(first_bytest) ==
    IF first_bytest = II THEN Some("<")
    ELSE IF first_bytest = MM THEN Some(">")
    ELSE None

\* line 118
VersionOk(v) == v \in {42, 43}

\* Mutant of BigtiffConstantsOk: the reserved field is not checked.
BigtiffConstantsOk_bytesize_only(bytesize, placeholder) == bytesize = 8

\* lines 157-158
BigtiffConstantsOk(bytesize, placeholder) == bytesize = 8 /\ placeholder = 0

\* _read_idfs, line 82
WalkOn(pointer) == pointer > 0

\* Mutant of NextPointer: the walk stays on the directory it has just read.
NextPointer_same(ifd) == ifd.offset

\* _read_idfs, line 85
NextPointer(ifd) == ifd.next_ifd_pointer

\* Mutant of IfdBlockSize: the trailing next-directory pointer is left out.
IfdBlockSize_no_pointer(n, pfmt) == n * (calcsize("H") + calcsize("H") + 2 * calcsize(pfmt))

\* _read_ifd, lines 185-190: where the tag block is and how long
IfdBlockOffset(pointer, nfmt) == pointer + calcsize(nfmt)
IfdBlockSize(n, pfmt) == n * tag_format_size(pfmt) + calcsize(pfmt)

\* Mutant of TagFromTagData: "<" for the "<=" of line 240.
TagFromTagData_strict(byte_order, pfmt, native_order, tag_data) ==
    LET pw == calcsize(pfmt)
        code == Val(unpack(byte_order, SubSeq(tag_data, 1, 2)))
        tag_type == Val(unpack(byte_order, SubSeq(tag_data, 3, 4)))
        n_values == Val(unpack(byte_order, SubSeq(tag_data, 5, 4 + pw)))
        pointer == unpack(byte_order, SubSeq(tag_data, 5 + pw, 4 + 2 * pw))
        tag == [code |-> code, type |-> tag_type, n_values |-> n_values,
                pointer |-> Some(pointer), data |-> None]
    IN  IF tag_type \notin KnownTypes THEN [raised |-> "ValueError"]
        ELSE IF data_size(tag_type, n_values) < pw
        THEN [raised |-> "none",
              tag |-> [tag EXCEPT
                          !.data = Some(SubSeq(pack(native_order, pointer), 1,
                                               data_size(tag_type, n_values))),
                          !.pointer = None]]
        ELSE [raised |-> "none", tag |-> tag]

\* _tag_from_tag_data: the Tag of one record, or the ValueError that
\* async_cog.ifd raises for a type its table does not know.
TagFromTagData(byte_order, pfmt, native_order, tag_data) ==
    LET pw == calcsize(pfmt)
        code == Val(unpack(byte_order, SubSeq(tag_data, 1, 2)))
        tag_type == Val(unpack(byte_order, SubSeq(tag_data, 3, 4)))
        n_values == Val(unpack(byte_order, SubSeq(tag_data, 5, 4 + pw)))
        pointer == unpack(byte_order, SubSeq(tag_data, 5 + pw, 4 + 2 * pw))
        tag == [code |-> code, type |-> tag_type, n_values |-> n_values,
                pointer |-> Some(pointer), data |-> None]
    IN  IF tag_type \notin KnownTypes THEN [raised |-> "ValueError"]
        ELSE IF data_size(tag_type, n_values) <= pw
        THEN [raised |-> "none",
              tag |-> [tag EXCEPT
                          !.data = Some(SubSeq(pack(native_order, pointer), 1,
                                               data_size(tag_type, n_values))),
                          !.pointer = None]]
        ELSE [raised |-> "none", tag |-> tag]

\* Mutant of TagsFromData: the first ValueError ends the directory's decode
\* ("break" for the "continue" of line 213).
RECURSIVE TagsFromData_abort(_, _, _, _, _)
TagsFromData_abort(byte_order, pfmt, native_order, n, tags_data) ==
    IF n = 0 THEN <<>>
    ELSE LET size == calcsize("H") + calcsize("H") + 2 * calcsize(pfmt)
             got == TagFromTagData(byte_order, pfmt, native_order,
                                   SubSeq(tags_data, 1, size))
             rest == TagsFromData_abort(byte_order, pfmt, native_order, n - 1,
                                        SubSeq(tags_data, size + 1, Len(tags_data)))
         IN  IF got.raised = "ValueError" THEN <<>> ELSE <<got.tag>> \o rest

\* _tags_from_data: the records in order, those that raise ValueError skipped.
RECURSIVE TagsFromData(_, _, _, _, _)
TagsFromData(byte_order, pfmt, native_order, n, tags_data) ==
    IF n = 0 THEN <<>>
    ELSE LET size == tag_format_size(pfmt)
             got == TagFromTagData(byte_order, pfmt, native_order,
                                   SubSeq(tags_data, 1, size))
             rest == TagsFromData(byte_order, pfmt, native_order, n - 1,
                                  SubSeq(tags_data, size + 1, Len(tags_data)))
         IN  IF got.raised = "ValueError" THEN rest ELSE <<got.tag>> \o rest

Send(offset, size) == fetches' = Append(fetches, <<offset, size>>)

\* __aenter__, lines 26-29, up to the first await of _read_first_header.
AEnter ==
    /\ pc = "new"
    /\ client' = "open"
    /\ Send(0, 4)
    /\ pc' = "first_header"
    /\ UNCHANGED <<image, content, native, exc, byte_order_fmt, version, pointer_fmt,
                   n_fmt, first_ifd_pointer, ifds, ifd_pointer, n_tags, responses>>

\* _read_first_header from line 102 on, then _read_header up to the await of
\* the second header's read.
ReadFirstHeader ==
    /\ pc = "first_header"
    /\ \E r \in Responses(0, 4) :
        /\ responses' = Append(responses, r.kind)
        /\ IF ReadError(r, 4) # "none"
           THEN /\ Raise(ReadError(r, 4))
                /\ UNCHANGED <<byte_order_fmt, version, pointer_fmt, n_fmt, fetches>>
           ELSE LET order == ByteOrderOf(SubSeq(r.data, 1, 2))
                IN  IF order = None
                    THEN /\ Raise("AssertionError")
                         /\ UNCHANGED <<byte_order_fmt, version, pointer_fmt, n_fmt,
                                        fetches>>
                    ELSE LET v == Val(unpack(order[1], SubSeq(r.data, 3, 4)))
                         IN  /\ byte_order_fmt' = order[1]
                             /\ version' = v
                             /\ IF ~VersionOk(v)
                                THEN /\ Raise("AssertionError")
                                     /\ UNCHANGED <<pointer_fmt, n_fmt, fetches>>
                                ELSE IF v = 43
                                THEN /\ pointer_fmt' = "Q"
                                     /\ n_fmt' = "Q"
                                     /\ Send(4, calcsize("H") + calcsize("H") + calcsize("Q"))
                                     /\ pc' = "bigtiff_second_header"
                                     /\ exc' = exc
                                ELSE /\ pointer_fmt' = "I"
                                     /\ n_fmt' = "H"
                                     /\ Send(4, calcsize("I"))
                                     /\ pc' = "second_header"
                                     /\ exc' = exc
    /\ UNCHANGED <<image, content, native, client, first_ifd_pointer, ifds,
                   ifd_pointer, n_tags>>

\* Mutant of ReadIdfsLoop: "if" for the "while" of line 82.
ReadIdfsLoop_once(pointer, n_done) ==
    IF pointer > 0 /\ n_done = 0
    THEN /\ ifd_pointer' = pointer
         /\ fetches' = Append(fetches, <<pointer, calcsize(n_fmt)>>)
         /\ pc' = "ifd_n"
         /\ exc' = exc
    ELSE /\ pc' = "entered"
         /\ exc' = exc
         /\ UNCHANGED <<ifd_pointer, fetches>>

\* _read_idfs at the head of its loop, with n_done directories appended: the
\* next _read_ifd up to its first await, or the return of __aenter__.  The
\* model follows a walk for MaxHops directories; pc = "walking" stands for a
\* walk that goes on beyond them.
ReadIdfsLoop(pointer, n_done) ==
    IF WalkOn(pointer)
    THEN IF n_done < MaxHops
         THEN /\ ifd_pointer' = pointer
              /\ Send(pointer, calcsize(n_fmt))
              /\ pc' = "ifd_n"
              /\ exc' = exc
         ELSE /\ pc' = "walking"
              /\ exc' = exc
              /\ UNCHANGED <<ifd_pointer, fetches>>
    ELSE /\ pc' = "entered"
         /\ exc' = exc
         /\ UNCHANGED <<ifd_pointer, fetches>>

\* _read_second_header from line 133 on, then _read_idfs.
ReadSecondHeader ==
    /\ pc = "second_header"
    /\ \E r \in Responses(4, calcsize(pointer_fmt)) :
        /\ responses' = Append(responses, r.kind)
        /\ IF ReadError(r, calcsize(pointer_fmt)) # "none"
           THEN /\ Raise(ReadError(r, calcsize(pointer_fmt)))
                /\ UNCHANGED <<first_ifd_pointer, ifd_pointer, fetches>>
           ELSE LET pointer == Val(unpack(byte_order_fmt, r.data))
                IN  /\ first_ifd_pointer' = pointer
                    /\ ReadIdfsLoop(pointer, 0)
    /\ UNCHANGED <<image, content, native, client, byte_order_fmt, version,
                   pointer_fmt, n_fmt, ifds, n_tags>>

\* _read_bigtiff_second_header from line 153 on, then _read_idfs.
ReadBigtiffSecondHeader ==
    /\ pc = "bigtiff_second_header"
    /\ \E r \in Responses(4, 12) :
        /\ responses' = Append(responses, r.kind)
        /\ IF ReadError(r, 12) # "none"
           THEN /\ Raise(ReadError(r, 12))
                /\ UNCHANGED <<first_ifd_pointer, ifd_pointer, fetches>>
           ELSE LET bytesize == Val(unpack(byte_order_fmt, SubSeq(r.data, 1, 2)))
                    placeholder == Val(unpack(byte_order_fmt, SubSeq(r.data, 3, 4)))
                    pointer == Val(unpack(byte_order_fmt, SubSeq(r.data, 5, 12)))
                IN  /\ first_ifd_pointer' = pointer
                    /\ IF ~BigtiffConstantsOk(bytesize, placeholder)
                       THEN /\ Raise("AssertionError")
                            /\ UNCHANGED <<ifd_pointer, fetches>>
                       ELSE ReadIdfsLoop(pointer, 0)
    /\ UNCHANGED <<image, content, native, client, byte_order_fmt, version,
                   pointer_fmt, n_fmt, ifds, n_tags>>

\* _read_ifd from line 182 on, up to the await of the tag block's read.
ReadIfdCount ==
    /\ pc = "ifd_n"
    /\ \E r \in Responses(ifd_pointer, calcsize(n_fmt)) :
        /\ responses' = Append(responses, r.kind)
        /\ IF ReadError(r, calcsize(n_fmt)) # "none"
           THEN /\ Raise(ReadError(r, calcsize(n_fmt)))
                /\ UNCHANGED <<n_tags, fetches>>
           ELSE LET n == Val(unpack(byte_order_fmt, r.data))
                IN  /\ n_tags' = n
                    /\ Send(IfdBlockOffset(ifd_pointer, n_fmt), IfdBlockSize(n, pointer_fmt))
                    /\ pc' = "ifd_data"
                    /\ exc' = exc
    /\ UNCHANGED <<image, content, native, client, byte_order_fmt, version,
                   pointer_fmt, n_fmt, first_ifd_pointer, ifds, ifd_pointer>>

\* _read_ifd from line 190 on, the append of _read_idfs (line 84), and the
\* loop's next round.
ReadIfdData ==
    /\ pc = "ifd_data"
    /\ LET offset == IfdBlockOffset(ifd_pointer, n_fmt)
           size == IfdBlockSize(n_tags, pointer_fmt)
       IN  \E r \in Responses(offset, size) :
            /\ responses' = Append(responses, r.kind)
            /\ IF ReadError(r, size) # "none"
               THEN /\ Raise(ReadError(r, size))
                    /\ UNCHANGED <<ifds, ifd_pointer, fetches>>
               ELSE LET tags_len == n_tags * tag_format_size(pointer_fmt)
                        tags_data == SubSeq(r.data, 1, tags_len)
                        pointer == Val(unpack(byte_order_fmt,
                                              SubSeq(r.data, tags_len + 1, size)))
                        ifd == [offset |-> ifd_pointer,
                                n_tags |-> n_tags,
                                next_ifd_pointer |-> pointer,
                                tags |-> TagsFromData(byte_order_fmt, pointer_fmt, native,
                                                      n_tags, tags_data)]
                    IN  /\ ifds' = Append(ifds, ifd)
                        /\ ReadIdfsLoop(NextPointer(ifd), Len(ifds) + 1)
    /\ UNCHANGED <<image, content, native, client, byte_order_fmt, version,
                   pointer_fmt, n_fmt, first_ifd_pointer, n_tags>>

\* __aexit__: "async with" calls it only when __aenter__ returned.
AExit ==
    /\ pc = "entered"
    /\ client' = "closed"
    /\ pc' = "exited"
    /\ UNCHANGED <<image, content, native, exc, byte_order_fmt, version, pointer_fmt,
                   n_fmt, first_ifd_pointer, ifds, ifd_pointer, n_tags, fetches,
                   responses>>

Next ==
    \/ AEnter
    \/ ReadFirstHeader
    \/ ReadSecondHeader
    \/ ReadBigtiffSecondHeader
    \/ ReadIfdCount
    \/ ReadIfdData
    \/ AExit

Spec == Init /\ [][Next]_vars

\* Every request is answered, the event loop resumes the reader with the
\* answer, and the caller leaves its "async with" block.
FairSpec == Spec /\ WF_vars(Next)

(***************************************************************************)
(* What the image says, read off its description and not off its bytes.    *)
(***************************************************************************)
RECURSIVE Links(_, _, _)
Links(img, i, fuel) ==
    IF i = 0 \/ fuel = 0 THEN <<>>
    ELSE <<i>> \o Links(img, img.dirs[i].next, fuel - 1)

\* The directories in link order, when the links reach 0.
Chain(img) == Links(img, img.first, Len(img.dirs) + 1)
Acyclic(img) == Len(Chain(img)) <= Len(img.dirs)
\* The directories a walk of at most MaxHops hops visits.
Walk(img) == Links(img, img.first, MaxHops)

Malformed(img) ==
    \/ img.marker \notin {II, MM}
    \/ img.version \notin {42, 43}
    \/ img.version = 43 /\ (img.bytesize # 8 \/ img.reserved # 0)

AllServed == \A k \in 1..Len(responses) : responses[k] = "served"
Entered == pc \in {"entered", "exited"}
HeaderDone == Len(fetches) > 2 \/ Entered

IsKnown(t) == t.type \in KnownTypes
KnownOf(tags) == SelectSeq(tags, IsKnown)

\* C1: once the session is over, by __aenter__ raising or by the caller
\* leaving its "async with" block, the ClientSession that __aenter__ created
\* is closed.
C1_ClientReleased == pc \in {"raised", "exited"} => client = "closed"

\* C2: whatever fails during the parse, the exception that leaves __aenter__
\* is ValueError("Invalid file format").
C2_SingleErrorKind == pc = "raised" => exc = "ValueError"

\* C3: after a failed parse the reader holds no directories; a reader holds
\* the whole chain or nothing (stated for the files whose chain ends).
C3_NoPartialChain == Acyclic(image) /\ pc = "raised" => ifds = <<>>

\* The record of the image that stored tag i of stored directory k was read from.
OnDisk(k, i) == KnownOf(image.dirs[Walk(image)[k]].tags)[i]

\* C4: every stored tag was decoded from the record of a known type with its
\* type and count, and holds exactly one of inline value and pointer: when
\* per_type_byte_size(type) * count <= pointer_width, an inline value of that
\* many bytes (none for count 0) and no pointer; otherwise a pointer and no
\* inline value.
C4_InlineXorPointer ==
    \A k \in 1..Len(ifds) : \A i \in 1..Len(ifds[k].tags) :
        LET tag == ifds[k].tags[i]
            disk == OnDisk(k, i)
            size == TAG_TYPES[disk.type] * disk.count
        IN  /\ tag.type = disk.type
            /\ tag.n_values = disk.count
            /\ Len(tag.data) + Len(tag.pointer) = 1
            /\ size <= PointerWidth(image)
                  => tag.pointer = None /\ tag.data # None /\ Len(tag.data[1]) = size
            /\ size > PointerWidth(image)
                  => tag.data = None /\ tag.pointer # None

\* A value of exactly pointer_width bytes, two LONGs in an extended file, is
\* stored inline.
C4_Witness ==
    \E k \in 1..Len(ifds) : \E i \in 1..Len(ifds[k].tags) :
        /\ version = 43
        /\ ifds[k].tags[i].type = 4
        /\ ifds[k].tags[i].n_values = 2
        /\ ifds[k].tags[i].pointer = None
        /\ Len(ifds[k].tags[i].data[1]) = 8

\* C5: the inline value of a stored tag is the first value_byte_size bytes
\* of the record's slot as they are on disk, whatever the file's byte order
\* (stated for a little-endian host).
C5_InlineIsRawSlot ==
    native = "<" =>
    \A k \in 1..Len(ifds) : \A i \in 1..Len(ifds[k].tags) :
        LET tag == ifds[k].tags[i]
            disk == OnDisk(k, i)
        IN  tag.data # None
                => tag.data[1] = SubSeq(disk.slot, 1, TAG_TYPES[disk.type] * disk.count)

C7_UnknownTypeDropped ==
    /\ \A k \in 1..Len(ifds) :
        LET disk == image.dirs[Walk(image)[k]].tags
        IN  /\ ifds[k].n_tags = Len(disk)
            /\ Len(ifds[k].tags) = Len(KnownOf(disk))
            /\ \A i \in 1..Len(ifds[k].tags) :
                /\ ifds[k].tags[i].code = KnownOf(disk)[i].code
                /\ ifds[k].tags[i].type = KnownOf(disk)[i].type
    /\ pc = "raised" /\ AllServed => Malformed(image)

\* A directory of two records, the first of an unknown type, is stored with
\* the second record alone, and the walk has gone on to the next directory.
C7_Witness ==
    /\ pc = "entered"
    /\ Len(ifds) = 2
    /\ ifds[1].n_tags = 2
    /\ Len(ifds[1].tags) = 1
    /\ ifds[1].tags[1].code = 257
    /\ image.dirs[1].tags[1].type \notin KnownTypes

\* C8: a malformed header (a marker other than "II" and "MM", a version
\* other than 42 and 43 in the marker's byte order, or an extended header
\* whose pointer size is not 8 or whose reserved field is not 0) never gets
\* past the header reads: no directory is requested or stored, and the error,
\* when every request was served, is the ValueError.  Any other header is
\* refused only when a request failed, and once it is read the reader holds
\* the marker's byte order, the version, its field formats and the
\* first-directory offset.
C8_HeaderDecode ==
    /\ Malformed(image) =>
        /\ ~HeaderDone
        /\ ifds = <<>>
        /\ pc \in {"second_header", "bigtiff_second_header"} =>
               image.marker \in {II, MM} /\ image.version \in {42, 43}
        /\ pc = "raised" /\ AllServed => exc = "ValueError"
    /\ ~Malformed(image) =>
        /\ pc = "raised" /\ Len(fetches) <= 2 => ~AllServed
        /\ HeaderDone =>
            /\ byte_order_fmt = WriterOrder(image)
            /\ version = image.version
            /\ pointer_fmt = (IF image.version = 43 THEN "Q" ELSE "I")
            /\ n_fmt = (IF image.version = 43 THEN "Q" ELSE "H")
            /\ first_ifd_pointer = DirOffset(image, image.first)

\* "MM", version 43 and pointer size 4: refused with the ValueError after the
\* two header reads.
C8_Witness ==
    /\ image.marker = MM
    /\ image.version = 43
    /\ image.bytesize = 4
    /\ image.reserved = 0
    /\ pc = "raised"
    /\ exc = "ValueError"
    /\ responses = <<"served", "served">>

\* C9: the requests are sent one at a time, each after the answer to the one
\* before: (0, 4) and (4, 4 or 12) for the header, then for the k-th
\* directory visited, at offset o with n tags, (o, count_width) and
\* (o + count_width, n * (2 + 2 + 2 * pointer_width) + pointer_width), the
\* widths being 2 and 4 after a classic header and 8 and 8 after an extended
\* one.  A parse that succeeded on a chain of d directories sent 2 + 2 * d
\* requests, no two of them the same.
C9_TwoFetchesPerDirectory ==
    LET pw == PointerWidth(image)
        cw == CountWidth(image)
        walk == Walk(image)
        n == Len(fetches)
    IN  /\ Len(responses) = (IF pc \in {"new", "raised", "entered", "exited", "walking"}
                             THEN n ELSE n - 1)
        /\ n >= 1 => fetches[1] = <<0, 4>>
        /\ n >= 2 => fetches[2] = <<4, IF image.version = 43 THEN 12 ELSE 4>>
        /\ n <= 2 + 2 * Len(walk)
        /\ \A k \in 1..Len(walk) :
            LET o == DirOffset(image, walk[k])
                tags == Len(image.dirs[walk[k]].tags)
            IN  /\ n >= 2 * k + 1 => fetches[2 * k + 1] = <<o, cw>>
                /\ n >= 2 * k + 2 =>
                       fetches[2 * k + 2] = <<o + cw, tags * (2 + 2 + 2 * pw) + pw>>
        /\ Entered =>
            /\ n = 2 + 2 * Len(Chain(image))
            /\ \A a, b \in 1..n : fetches[a] = fetches[b] => a = b

\* An extended file with a chain of two directories: six requests.
C9_Witness ==
    /\ pc = "entered"
    /\ version = 43
    /\ Len(ifds) = 2
    /\ Len(fetches) = 6
    /\ Len(responses) = 6

\* C10: on an image with a well-formed header whose links reach 0 without a
\* repeat, the walk ends: by __aenter__ returning with as many directories as
\* the chain has, or, when a request was not served, by raising.  The walk
\* has no other end: on an image whose links repeat, __aenter__ never
\* returns.
C10_WalkTerminates ==
    /\ (Acyclic(image) /\ ~Malformed(image)) ~>
           \/ Entered /\ Len(ifds) = Len(Chain(image))
           \/ pc = "raised" /\ ~AllServed
    /\ [](~Acyclic(image) => ~Entered)

\* A walk of the longest chain that has ended.
C10_Witness ==
    /\ Acyclic(image)
    /\ pc = "entered"
    /\ Len(Chain(image)) = Len(image.dirs)
    /\ Len(ifds) = 2
    /\ AllServed

====
